---- MODULE Spec2Model ----
(***************************************************************************)
(* Data Sweeper (src/main.py): a Streamlit script that loads uploaded CSV  *)
(* / Excel files, optionally removes duplicate rows and fills missing      *)
(* numeric values, projects the table on selected columns and offers the   *)
(* result for download.                                                    *)
(*                                                                         *)
(* File names are sequences of one-character strings.  A table is a record *)
(* [columns, dtypes, rows]; a cell is a record [k, n, d]: k = "num" is the *)
(* number n/d (reduced, d > 0), k = "nan" the missing marker, k = "str"    *)
(* the string with identifier n.  Floating-point rounding of the mean is   *)
(* not modelled: numbers are exact rationals.                              *)
(***************************************************************************)
EXTENDS Integers, Sequences, FiniteSets, TLC

VARIABLES uploaded_files, conversion_format, i, pc, df, out, widgets,
          attempts, runs, prev, opts, selection

vars == <<uploaded_files, conversion_format, i, pc, df, out, widgets,
          attempts, runs, prev, opts, selection>>

(* ------------------------------ bounds --------------------------------- *)
MaxFiles == 3
MaxPieces == 3
MaxRows == 3

(* ------------------------------ strings -------------------------------- *)
Range(s) == {s[k] : k \in 1..Len(s)}

DotCsv == <<".", "c", "s", "v">>
DotXlsx == <<".", "x", "l", "s", "x">>
DotTxt == <<".", "t", "x", "t">>

\* str.lower() on one character
LowerChar(c) ==
    CASE c = "C" -> "c"
      [] c = "S" -> "s"
      [] c = "V" -> "v"
      [] c = "X" -> "x"
      [] c = "L" -> "l"
      [] c = "T" -> "t"
      [] c = "A" -> "a"
      [] OTHER -> c

lower(s) == [k \in 1..Len(s) |-> LowerChar(s[k])]

\* str.rfind(ch): the last position of ch, 0 when absent
RFind(s, ch) ==
    IF \E k \in 1..Len(s) : s[k] = ch
    THEN CHOOSE k \in 1..Len(s) : s[k] = ch /\ \A m \in (k+1)..Len(s) : s[m] # ch
    ELSE 0

\* os.path.splitext(p)[-1]: the text from the last dot on, when that dot
\* comes after the last path separator and a character other than a dot
\* stands between the two (leading dots of the base name start no extension)
splitext(p) ==
    LET sepIndex == RFind(p, "/")
        dotIndex == RFind(p, ".")
    IN  IF dotIndex > sepIndex /\ \E k \in (sepIndex + 1)..(dotIndex - 1) : p[k] # "."
        THEN SubSeq(p, dotIndex, Len(p))
        ELSE <<>>

StartsWith(s, t) == Len(t) <= Len(s) /\ SubSeq(s, 1, Len(t)) = t

RECURSIVE Interleave(_, _)
Interleave(s, new) ==
    IF s = <<>> THEN <<>> ELSE <<s[1]>> \o new \o Interleave(Tail(s), new)

\* str.replace(old, new): every non-overlapping occurrence, left to right
RECURSIVE replace(_, _, _)
replace(s, old, new) ==
    IF old = <<>> THEN new \o Interleave(s, new)
    ELSE IF Len(s) < Len(old) THEN s
    ELSE IF StartsWith(s, old)
         THEN new \o replace(SubSeq(s, Len(old) + 1, Len(s)), old, new)
         ELSE <<s[1]>> \o replace(Tail(s), old, new)

(* ------------------------------- cells --------------------------------- *)
RECURSIVE Gcd(_, _)
Gcd(a, b) == IF b = 0 THEN a ELSE Gcd(b, a % b)

Num(n) == [k |-> "num", n |-> n, d |-> 1]
NaN == [k |-> "nan", n |-> 0, d |-> 1]
Str(id) == [k |-> "str", n |-> id, d |-> 1]

\* the number n/d (n >= 0, d > 0) in lowest terms
Frac(n, d) == LET g == Gcd(n, d) IN [k |-> "num", n |-> n \div g, d |-> d \div g]

AddFrac(a, b) == Frac(a.n * b.d + b.n * a.d, a.d * b.d)

(* ------------------------------- tables -------------------------------- *)
None == [none |-> TRUE]

ColumnValues(t, c) == [r \in 1..Len(t.rows) |-> t.rows[r][c]]

\* the dtype the parser infers for a column: object when it holds a string
\* or the table has no rows, a number type otherwise (also when every cell
\* is missing)
InferDtype(rows, c) ==
    IF rows = <<>> \/ \E r \in 1..Len(rows) : rows[r][c].k = "str"
    THEN "object" ELSE "number"

MkTable(columns, rows) ==
    [columns |-> columns,
     dtypes |-> [c \in Range(columns) |-> InferDtype(rows, c)],
     rows |-> rows]

\* len(df)
RowCount(t) == Len(t.rows)

\* df.empty: some axis has length 0
IsEmpty(t) == Len(t.columns) = 0 \/ Len(t.rows) = 0

RECURSIVE KeepAt(_, _)
\* the subsequence of s at the positions of the set keep, in order
KeepAt(s, keep) ==
    IF s = <<>> THEN <<>>
    ELSE KeepAt(SubSeq(s, 1, Len(s) - 1), keep)
         \o (IF Len(s) \in keep THEN <<s[Len(s)]>> ELSE <<>>)

\* df.drop_duplicates(): keep the first occurrence of each row; missing
\* values compare equal to each other
drop_duplicates(t) ==
    LET keep == {r \in 1..Len(t.rows) : \A q \in 1..(r - 1) : t.rows[q] # t.rows[r]}
    IN  [t EXCEPT !.rows = KeepAt(t.rows, keep)]

\* df.select_dtypes(include='number').columns
numeric_cols(t) == {c \in Range(t.columns) : t.dtypes[c] = "number"}

RECURSIVE SumCells(_)
SumCells(s) ==
    IF s = <<>> THEN Frac(0, 1)
    ELSE IF s[1].k = "num" THEN AddFrac(s[1], SumCells(Tail(s)))
    ELSE SumCells(Tail(s))

RECURSIVE CountCells(_)
CountCells(s) ==
    IF s = <<>> THEN 0
    ELSE (IF s[1].k = "num" THEN 1 ELSE 0) + CountCells(Tail(s))

\* a mean that counts the missing cells as zeros
mean_over_all(s) ==
    IF CountCells(s) = 0 THEN NaN
    ELSE LET t == SumCells(s) IN Frac(t.n, t.d * Len(s))

\* Series.mean() with skipna: the mean of the non-missing cells, NaN when
\* there is none
mean(s) ==
    IF CountCells(s) = 0 THEN NaN
    ELSE LET t == SumCells(s) IN Frac(t.n, t.d * CountCells(s))

\* df[numeric_cols] = df[numeric_cols].fillna(df[numeric_cols].mean())
fillna_mean(t) ==
    LET m == [c \in numeric_cols(t) |-> mean(ColumnValues(t, c))]
    IN  [t EXCEPT !.rows =
            [r \in 1..Len(t.rows) |->
                [c \in Range(t.columns) |->
                    IF c \in numeric_cols(t) /\ t.rows[r][c].k = "nan"
                    THEN m[c] ELSE t.rows[r][c]]]]

\* df[selected_columns]
Project(t, selected) ==
    [columns |-> selected,
     dtypes |-> [c \in Range(selected) |-> t.dtypes[c]],
     rows |-> [r \in 1..Len(t.rows) |-> [c \in Range(selected) |-> t.rows[r][c]]]]

(* ------------------------------ widgets -------------------------------- *)
\* Streamlit derives a widget's identity from its type and label; a second
\* widget with the same identity in one script run raises DuplicateWidgetID.
Widget(kind, label, name) == [kind |-> kind, label |-> label, name |-> name]

(* ------------------------------ load_data ------------------------------ *)
\* A file is [name, kind, tbl]: kind is what its bytes are ("csv", "xlsx" or
\* "junk"), tbl the table a matching parser reads from them.  A parser given
\* bytes of another kind raises.
ext_of_case_sensitive(name) == splitext(name)

\* os.path.splitext(file.name)[-1].lower()
ext_of(name) == lower(splitext(name))

load_data_silent(file) ==
    LET ext == ext_of(file.name)
        parser == IF ext = DotCsv THEN "read_csv"
                  ELSE IF ext = DotXlsx THEN "read_excel" ELSE "none"
        okp == (parser = "read_csv" /\ file.kind = "csv")
               \/ (parser = "read_excel" /\ file.kind = "xlsx")
    IN  [df |-> IF okp THEN file.tbl ELSE None, parser |-> parser, msgs |-> <<>>]

load_data(file) ==
    LET ext == ext_of(file.name)
        parser == IF ext = DotCsv THEN "read_csv"
                  ELSE IF ext = DotXlsx THEN "read_excel" ELSE "none"
        okp == (parser = "read_csv" /\ file.kind = "csv")
               \/ (parser = "read_excel" /\ file.kind = "xlsx")
    IN  [df |-> IF okp THEN file.tbl ELSE None,
         parser |-> parser,
         msgs |-> IF parser = "none"
                  THEN <<[ev |-> "error", by |-> "load_data",
                          text |-> "Unsupported file type", arg |-> ext]>>
                  ELSE IF ~okp
                  THEN <<[ev |-> "error", by |-> "load_data",
                          text |-> "Error loading", arg |-> file.name]>>
                  ELSE <<>>]

(* ------------------------------ clean_data ----------------------------- *)
\* rm and fill are the values of the two sidebar checkboxes.  The result
\* carries the sidebar messages, the widgets registered and whether a
\* checkbox raised (then df is not produced and the exception leaves
\* clean_data: it has no handler).
clean_data(t, file_name, rm, fill, ws) ==
    LET w1 == Widget("checkbox", "Remove duplicates in", file_name)
        w2 == Widget("checkbox", "Fill missing values in", file_name)
        d1 == IF rm THEN drop_duplicates(t) ELSE t
        m1 == IF rm
              THEN <<[ev |-> "sidebar", text |-> "Removed",
                      n |-> RowCount(t) - RowCount(d1)]>>
              ELSE <<>>
        d2 == IF fill THEN fillna_mean(d1) ELSE d1
        m2 == IF fill THEN <<[ev |-> "sidebar", text |-> "Filled", n |-> 0]>> ELSE <<>>
    IN  IF w1 \in ws
        THEN [raised |-> TRUE, df |-> None, msgs |-> <<>>, widgets |-> ws]
        ELSE IF w2 \in ws \cup {w1}
        THEN [raised |-> TRUE, df |-> None, msgs |-> m1, widgets |-> ws \cup {w1}]
        ELSE [raised |-> FALSE, df |-> d2, msgs |-> m1 \o m2,
              widgets |-> ws \cup {w1, w2}]

(* ------------------------ handle_column_selection ---------------------- *)
\* selected is the value of the multiselect: distinct columns of the table
\* in the order the user picked them.
select_keep_when_same_set(t, selected) ==
    IF selected = t.columns THEN t
    ELSE IF Range(selected) = Range(t.columns) THEN t
    ELSE Project(t, selected)

select_columns(t, selected) ==
    IF selected = t.columns THEN t
    ELSE IF Range(selected) = Range(t.columns) THEN Project(t, selected)
    ELSE Project(t, selected)

handle_column_selection(t, file_name, selected, ws) ==
    LET w == Widget("multiselect", "Select columns for", file_name)
    IN  IF w \in ws
        THEN [raised |-> TRUE, df |-> None, widgets |-> ws]
        ELSE [raised |-> FALSE, df |-> select_columns(t, selected),
              widgets |-> ws \cup {w}]

(* ------------------------------ convert_file --------------------------- *)
MimeCsv == "text/csv"
MimeXlsx == "application/vnd.openxmlformats-officedocument.spreadsheetml.sheet"

new_ext(target_format) == IF target_format = "CSV" THEN DotCsv ELSE DotXlsx

download_name(file_name, target_format) ==
    replace(file_name, splitext(file_name), new_ext(target_format))

\* raises: the serialisation (to_csv / to_excel) or the button raised; the
\* handler of convert_file reports it and nothing is offered.
convert_file(t, file_name, target_format, raises) ==
    IF raises
    THEN <<[ev |-> "error", by |-> "convert_file",
            text |-> "Conversion failed", arg |-> file_name]>>
    ELSE <<[ev |-> "download", name |-> download_name(file_name, target_format),
            mime |-> IF target_format = "CSV" THEN MimeCsv ELSE MimeXlsx,
            of |-> file_name]>>

(* ------------------------------- inputs -------------------------------- *)
Columns == <<"A", "B">>

Row(a, b) == [c \in {"A", "B"} |-> IF c = "A" THEN a ELSE b]

\* the sequences of distinct elements of the sequence cols
Selections(cols) ==
    {s \in UNION {[1..k -> Range(cols)] : k \in 0..Len(cols)} :
        \A m, n \in 1..Len(s) : m # n => s[m] # s[n]}

\* the tables of the uploaded files of a batch: one numeric column with a
\* missing value and a duplicate row, and a header without rows
SampleTable ==
    MkTable(<<"A">>, <<[c \in {"A"} |-> Num(1)], [c \in {"A"} |-> NaN],
                       [c \in {"A"} |-> Num(1)]>>)
EmptyTable == MkTable(<<"A">>, <<>>)

NameA == <<"a">> \o DotCsv
NameB == <<"b">> \o DotXlsx
NameC == <<"c">> \o DotTxt

File(name, kind, tbl) == [name |-> name, kind |-> kind, tbl |-> tbl]

FileChoices ==
    {File(NameA, "csv", SampleTable), File(NameA, "csv", EmptyTable),
     File(NameA, "junk", EmptyTable), File(NameB, "xlsx", SampleTable),
     File(NameC, "csv", SampleTable)}

Batches == UNION {[1..k -> FileChoices] : k \in 0..MaxFiles}

NoOpts == [rm |-> FALSE, fill |-> FALSE]

(* -------------------------------- main --------------------------------- *)
Emit(evs) == out' = out \o evs

Init ==
    /\ uploaded_files \in Batches
    /\ conversion_format \in {"CSV", "Excel"}
    /\ i = 0
    /\ pc = "start"
    /\ df = None
    /\ out = <<>>
    /\ widgets = {}
    /\ attempts = <<>>
    /\ runs = 0
    /\ prev = None
    /\ opts = NoOpts
    /\ selection = <<>>

\* lines 162-167: the upload list, the early return, the progress bar (the
\* page set-up of lines 159-160 emits no signal of the pipeline and is not
\* recorded)
Upload ==
    /\ pc = "start"
    /\ IF uploaded_files = <<>>
       THEN /\ pc' = "returned"
            /\ UNCHANGED <<i, out>>
       ELSE /\ pc' = "loop"
            /\ i' = 1
            /\ Emit(<<[ev |-> "progress_bar", num |-> 0, den |-> 1]>>)
    /\ UNCHANGED <<uploaded_files, conversion_format, df, widgets, attempts,
                   runs, prev, opts, selection>>

\* lines 169-173 and 191-192: the loop head (i is the 1-based index, the
\* code's i + 1), and the completion after the last file
LoopHead ==
    /\ pc = "loop"
    /\ IF i > Len(uploaded_files)
       THEN /\ pc' = "done"
            /\ Emit(<<[ev |-> "progress_empty"], [ev |-> "success"]>>)
       ELSE /\ pc' = "load"
            /\ Emit(<<[ev |-> "progress", num |-> i, den |-> Len(uploaded_files)],
                      [ev |-> "header", name |-> uploaded_files[i].name]>>)
    /\ UNCHANGED <<uploaded_files, conversion_format, i, df, widgets, attempts,
                   runs, prev, opts, selection>>

skip_only_none(t) == t = None

\* line 176: df is None or df.empty
skip_file(t) == t = None \/ IsEmpty(t)

\* lines 174-181
Load ==
    /\ pc = "load"
    /\ LET file == uploaded_files[i]
           r == load_data(file)
       IN  /\ attempts' = Append(attempts,
                    [idx |-> i,
                     load |-> IF r.df = None THEN "failed"
                              ELSE IF RowCount(r.df) = 0 THEN "empty" ELSE "ok",
                     export |-> "none"])
           /\ IF skip_file(r.df)
              THEN /\ Emit(r.msgs \o <<[ev |-> "warning", name |-> file.name]>>)
                   /\ i' = i + 1
                   /\ pc' = "loop"
                   /\ UNCHANGED df
              ELSE /\ Emit(r.msgs \o <<[ev |-> "dataframe", name |-> file.name]>>)
                   /\ df' = r.df
                   /\ pc' = "clean"
                   /\ UNCHANGED i
    /\ UNCHANGED <<uploaded_files, conversion_format, widgets, runs, prev, opts,
                   selection>>

\* line 183; an exception of clean_data leaves main, which has no handler
Clean ==
    /\ pc = "clean"
    /\ \E rm, fill \in BOOLEAN :
         LET r == clean_data(df, uploaded_files[i].name, rm, fill, widgets)
         IN  /\ widgets' = r.widgets
             /\ Emit(r.msgs)
             /\ IF r.raised
                THEN pc' = "raised" /\ UNCHANGED df
                ELSE pc' = "select" /\ df' = r.df
    /\ UNCHANGED <<uploaded_files, conversion_format, i, attempts, runs, prev,
                   opts, selection>>

\* line 184
Select ==
    /\ pc = "select"
    /\ \E selected \in Selections(df.columns) :
         LET r == handle_column_selection(df, uploaded_files[i].name, selected, widgets)
         IN  /\ widgets' = r.widgets
             /\ IF r.raised
                THEN pc' = "raised" /\ UNCHANGED df
                ELSE pc' = "viz" /\ df' = r.df
    /\ UNCHANGED <<uploaded_files, conversion_format, i, out, attempts, runs, prev,
                   opts, selection>>

\* lines 186-187
Visualize ==
    /\ pc = "viz"
    /\ \E show \in BOOLEAN :
         LET w == Widget("checkbox", "Show visualization for", uploaded_files[i].name)
         IN  IF w \in widgets
             THEN pc' = "raised" /\ UNCHANGED <<out, widgets>>
             ELSE /\ pc' = "convert"
                  /\ widgets' = widgets \cup {w}
                  /\ Emit(IF show
                          THEN <<[ev |-> "bar_chart", name |-> uploaded_files[i].name]>>
                          ELSE <<>>)
    /\ UNCHANGED <<uploaded_files, conversion_format, i, df, attempts, runs, prev,
                   opts, selection>>

\* line 189
Convert ==
    /\ pc = "convert"
    /\ \E raises \in BOOLEAN :
         /\ Emit(convert_file(df, uploaded_files[i].name, conversion_format, raises))
         /\ attempts' = [attempts EXCEPT ![Len(attempts)].export =
                            IF raises THEN "failed" ELSE "ok"]
    /\ i' = i + 1
    /\ pc' = "loop"
    /\ UNCHANGED <<uploaded_files, conversion_format, df, widgets, runs, prev,
                   opts, selection>>

Next == Upload \/ LoopHead \/ Load \/ Clean \/ Select \/ Visualize \/ Convert

Spec == Init /\ [][Next]_vars

(* --------------------- load_data and convert_file on names ------------- *)
Pieces ==
    {<<"a">>, <<".">>, <<"/">>, DotCsv, <<".", "C", "s", "V">>, DotXlsx,
     <<".", "X", "L", "S", "X">>, DotTxt}

RECURSIVE Concat(_)
Concat(ps) == IF ps = <<>> THEN <<>> ELSE ps[1] \o Concat(Tail(ps))

NameSet == {Concat(ps) : ps \in UNION {[1..k -> Pieces] : k \in 1..MaxPieces}}

InitNames ==
    /\ \E name \in NameSet, kind \in {"csv", "xlsx"} :
          uploaded_files = <<File(name, kind, SampleTable)>>
    /\ conversion_format \in {"CSV", "Excel"}
    /\ i = 1
    /\ pc = "n_start"
    /\ df = None
    /\ out = <<>>
    /\ widgets = {}
    /\ attempts = <<>>
    /\ runs = 0
    /\ prev = None
    /\ opts = NoOpts
    /\ selection = <<>>

\* load_data applied to the file; prev keeps its result
NLoad ==
    /\ pc = "n_start"
    /\ LET r == load_data(uploaded_files[1])
       IN  /\ prev' = r
           /\ df' = r.df
           /\ Emit(r.msgs)
    /\ pc' = "n_loaded"
    /\ UNCHANGED <<uploaded_files, conversion_format, i, widgets, attempts, runs,
                   opts, selection>>

\* convert_file applied to a table under the file's name
NConvert ==
    /\ pc = "n_loaded"
    /\ \E raises \in BOOLEAN :
          Emit(convert_file(SampleTable, uploaded_files[1].name, conversion_format, raises))
    /\ pc' = "n_converted"
    /\ UNCHANGED <<uploaded_files, conversion_format, i, df, widgets, attempts,
                   runs, prev, opts, selection>>

NextNames == NLoad \/ NConvert

SpecNames == InitNames /\ [][NextNames]_vars

(* ------------- clean_data and handle_column_selection on tables -------- *)
RowValues == {Row(a, b) : a \in {Num(1), Num(2), NaN}, b \in {NaN, Str(1)}}

Tables == {MkTable(Columns, rows) : rows \in UNION {[1..k -> RowValues] : k \in 0..MaxRows}}

InitTables ==
    /\ uploaded_files = <<>>
    /\ conversion_format = "CSV"
    /\ i = 0
    /\ pc = "t_start"
    /\ df \in Tables
    /\ out = <<>>
    /\ widgets = {}
    /\ attempts = <<>>
    /\ runs = 0
    /\ prev = None
    /\ opts \in [rm : BOOLEAN, fill : BOOLEAN]
    /\ selection = <<>>

\* clean_data applied to the current table in a fresh script run, with the
\* same two checkbox values each time; prev keeps the table it was given and
\* out the messages of this run
TClean ==
    /\ pc \in {"t_start", "t_cleaned"}
    /\ runs < 2
    /\ LET r == clean_data(df, NameA, opts.rm, opts.fill, {})
       IN  /\ df' = r.df
           /\ out' = r.msgs
    /\ prev' = df
    /\ runs' = runs + 1
    /\ pc' = "t_cleaned"
    /\ UNCHANGED <<uploaded_files, conversion_format, i, widgets, attempts, opts,
                   selection>>

\* handle_column_selection applied to the current table; prev keeps the
\* table it was given
TSelect ==
    /\ pc \in {"t_start", "t_cleaned"}
    /\ \E selected \in Selections(df.columns) :
          /\ selection' = selected
          /\ df' = handle_column_selection(df, NameA, selected, {}).df
    /\ prev' = df
    /\ pc' = "t_selected"
    /\ UNCHANGED <<uploaded_files, conversion_format, i, out, widgets, attempts,
                   runs, opts>>

NextTables == TClean \/ TSelect

SpecTables == InitTables /\ [][NextTables]_vars

(* ============================= properties ============================== *)
\* main has ended: by the early return, after the loop, or by an exception
Terminated == pc \in {"returned", "done", "raised"}

EventsOf(kinds) == SelectSeq(out, LAMBDA e : e.ev \in kinds)

IsLoaderError(e) == e.ev = "error" /\ e.by = "load_data"

(* ---- C1 ---- *)
\* C1: for every batch of one or more files and every combination of per-file
\* outcomes, main attempts every uploaded file exactly once in upload order
\* and then emits the completion signal.
C1_EveryFileAttemptedThenCompletion ==
    (Terminated /\ uploaded_files # <<>>) =>
        /\ Len(attempts) = Len(uploaded_files)
        /\ \A k \in 1..Len(attempts) : attempts[k].idx = k
        /\ out # <<>>
        /\ out[Len(out)].ev = "success"

(* ---- C2 ---- *)
\* what the claim lets one attempted file show: a skip warning when its load
\* failed or gave zero rows, a download when it loaded rows and its export
\* succeeded, nothing otherwise
ReportOf(a) ==
    IF a.load \in {"failed", "empty"}
    THEN <<<<"warning", uploaded_files[a.idx].name>>>>
    ELSE IF a.export = "ok"
    THEN <<<<"download", uploaded_files[a.idx].name>>>>
    ELSE <<>>

RECURSIVE ReportsOf(_)
ReportsOf(as) == IF as = <<>> THEN <<>> ELSE ReportOf(as[1]) \o ReportsOf(Tail(as))

ShownReports ==
    LET es == EventsOf({"warning", "download"})
    IN  [k \in 1..Len(es) |->
            IF es[k].ev = "warning" THEN <<"warning", es[k].name>>
            ELSE <<"download", es[k].of>>]

\* C2: the skip warnings and downloads emitted are, in order, exactly one
\* warning for each file whose load failed or whose table has zero rows and
\* one download for each file that loaded with rows and whose export
\* succeeded; a failed export gives no download and no file gets both.
C2_WarningsAndDownloadsExact == ShownReports = ReportsOf(attempts)

C2_Witness ==
    /\ pc = "done"
    /\ Len(attempts) = 3
    /\ attempts[1].load = "ok" /\ attempts[1].export = "ok"
    /\ attempts[2].load = "empty"
    /\ attempts[3].load = "ok" /\ attempts[3].export = "ok"
    /\ Len(EventsOf({"download"})) = 2
    /\ Len(EventsOf({"warning"})) = 1

LoadReportOf(a) ==
    IF a.load = "failed" THEN <<"error", "warning">>
    ELSE IF a.load = "empty" THEN <<"warning">>
    ELSE <<>>

RECURSIVE LoadReportsOf(_)
LoadReportsOf(as) ==
    IF as = <<>> THEN <<>> ELSE LoadReportOf(as[1]) \o LoadReportsOf(Tail(as))

ShownLoadReports ==
    LET es == SelectSeq(out, LAMBDA e : e.ev = "warning" \/ IsLoaderError(e))
    IN  [k \in 1..Len(es) |-> es[k].ev]

Progress == EventsOf({"progress"})

\* C9: in one pass over n >= 1 files exactly n progress values are emitted,
\* the k-th being k/n (so they increase strictly, lie in (0, 1] and end at
\* 1), each before its file is loaded.
C9_ExactlyNProgressValues ==
    (Terminated /\ uploaded_files # <<>>) =>
        /\ Len(Progress) = Len(uploaded_files)
        /\ \A k \in 1..Len(Progress) :
              Progress[k].num = k /\ Progress[k].den = Len(uploaded_files)

(* ---- C10 ---- *)
\* C10: once main has ended, the completion signal has been emitted exactly
\* once, as the last signal, if at least one file was uploaded, and nothing
\* at all has been emitted if none was.
C10_CompletionIffFilesUploaded ==
    Terminated =>
        IF uploaded_files = <<>>
        THEN out = <<>>
        ELSE /\ Len(EventsOf({"success"})) = 1
             /\ out[Len(out)].ev = "success"

(* ---- C3 ---- *)
TheName == uploaded_files[1].name

\* the position of the name's last dot when the name has an extension: the
\* dot lies in the base name (after the last "/") and a character of the
\* base name other than a dot precedes it; 0 otherwise
ExtStart(name) ==
    LET d == RFind(name, ".")
    IN  IF /\ d > 1
           /\ \A k \in d..Len(name) : name[k] # "/"
           /\ \E k \in 1..(d - 1) :
                 /\ name[k] \notin {".", "/"}
                 /\ \A m \in k..d : name[m] # "/"
        THEN d ELSE 0

\* C3: for a file that loaded, whose name therefore has an extension, the
\* download name is the name with that extension replaced by the target
\* extension, every other character unchanged.
C3_ExtensionReplacedOnce ==
    (/\ pc = "n_converted"
     /\ prev.df # None
     /\ ExtStart(TheName) > 0
     /\ out[Len(out)].ev = "download") =>
        out[Len(out)].name
            = SubSeq(TheName, 1, ExtStart(TheName) - 1) \o new_ext(conversion_format)

(* ---- C4 ---- *)
EndsWithCI(name, e) ==
    /\ Len(name) >= Len(e)
    /\ \A k \in 1..Len(e) : LowerChar(name[Len(name) - Len(e) + k]) = e[k]

\* load_data returned no table and reported the name as unsupported
Unsupported ==
    /\ prev.parser = "none"
    /\ prev.df = None
    /\ Len(prev.msgs) = 1
    /\ prev.msgs[1].ev = "error"
    /\ prev.msgs[1].text = "Unsupported file type"

\* the text of the name from its last dot on, in lower case
LastExtLower(name) ==
    IF RFind(name, ".") = 0 THEN <<>>
    ELSE [k \in 1..(Len(name) - RFind(name, ".") + 1) |->
             LowerChar(name[RFind(name, ".") + k - 1])]

\* C4: a name ending in .csv or .xlsx in any letter case is parsed as CSV or
\* spreadsheet respectively; a name with any other extension fails as
\* unsupported, reporting that extension and returning no table.
C4_ParserByNameEnding ==
    pc \in {"n_loaded", "n_converted"} =>
        IF EndsWithCI(TheName, DotCsv) THEN prev.parser = "read_csv"
        ELSE IF EndsWithCI(TheName, DotXlsx) THEN prev.parser = "read_excel"
        ELSE /\ Unsupported
             /\ ExtStart(TheName) > 0 => prev.msgs[1].arg = LastExtLower(TheName)

\* C4 (amended): a name ending in .csv or .xlsx in any letter case, with a
\* character of the base name other than a dot before that last dot, is
\* parsed as CSV or spreadsheet respectively; any other name fails as
\* unsupported, returning no table and reporting its lower-cased extension,
\* which is empty when only dots precede the last dot of the base name
\* (".csv") or the base name has no dot.
C4_ParserByExtension ==
    pc \in {"n_loaded", "n_converted"} =>
        IF ExtStart(TheName) > 0 /\ EndsWithCI(TheName, DotCsv)
        THEN prev.parser = "read_csv"
        ELSE IF ExtStart(TheName) > 0 /\ EndsWithCI(TheName, DotXlsx)
        THEN prev.parser = "read_excel"
        ELSE /\ Unsupported
             /\ prev.msgs[1].arg
                  = IF ExtStart(TheName) > 0 THEN LastExtLower(TheName) ELSE <<>>

C4_Witness ==
    /\ pc = "n_loaded"
    /\ TheName = <<"a", ".", "C", "s", "V">>
    /\ uploaded_files[1].kind = "csv"
    /\ prev.parser = "read_csv"
    /\ prev.df = SampleTable

(* ---- C6 ---- *)
\* C6: with removeDuplicates enabled, a second run of clean_data on the
\* output of the first, with the same options, removes zero rows.
C6_SecondCleanRemovesNothing ==
    (pc = "t_cleaned" /\ runs = 2 /\ opts.rm) =>
        /\ RowCount(df) = RowCount(prev)
        /\ out[1].text = "Removed" /\ out[1].n = 0

(* ---- C7 ---- *)
\* C7: the selected table has exactly the selected columns in the selected
\* order, the same number of rows, each kept cell unchanged, and is the
\* given table itself when the selection is all columns in original order.
C7_SelectionProjects ==
    pc = "t_selected" =>
        /\ df.columns = selection
        /\ RowCount(df) = RowCount(prev)
        /\ \A r \in 1..RowCount(prev) :
              /\ DOMAIN df.rows[r] = Range(selection)
              /\ \A c \in Range(selection) : df.rows[r][c] = prev.rows[r][c]
        /\ (selection = prev.columns => df = prev)

C7_Witness ==
    /\ pc = "t_selected"
    /\ selection = <<"B", "A">>
    /\ RowCount(prev) = 2
    /\ prev.rows[1] # prev.rows[2]
    /\ df.columns = <<"B", "A">>
    /\ RowCount(df) = 2

(* ---- C8 ---- *)
\* the rows clean_data fills: those left by the duplicate removal when it is
\* enabled
RowsBeforeFill == IF opts.rm THEN drop_duplicates(prev).rows ELSE prev.rows

ColumnBeforeFill(c) == [r \in 1..Len(RowsBeforeFill) |-> RowsBeforeFill[r][c]]

\* v is the arithmetic mean of the non-missing cells of s
IsMeanOf(v, s) ==
    /\ v.k = "num"
    /\ v.n * SumCells(s).d * CountCells(s) = SumCells(s).n * v.d

\* C8: with fillMissingNumeric enabled every missing cell of a numeric column
\* becomes the mean of the column's non-missing cells as they were before
\* the fill; a numeric column without non-missing cells keeps its missing
\* cells and no error is raised; every other cell is unchanged.
C8_FillWithColumnMean ==
    (pc = "t_cleaned" /\ opts.fill) =>
        /\ df # None
        /\ df.columns = prev.columns
        /\ Len(df.rows) = Len(RowsBeforeFill)
        /\ \A r \in 1..Len(RowsBeforeFill) : \A c \in Range(prev.columns) :
              IF prev.dtypes[c] = "number" /\ RowsBeforeFill[r][c].k = "nan"
              THEN IF CountCells(ColumnBeforeFill(c)) = 0
                   THEN df.rows[r][c] = NaN
                   ELSE IsMeanOf(df.rows[r][c], ColumnBeforeFill(c))
              ELSE df.rows[r][c] = RowsBeforeFill[r][c]

C8_Witness ==
    /\ pc = "t_cleaned" /\ runs = 1 /\ opts.fill /\ ~opts.rm
    /\ ColumnValues(prev, "A") = <<Num(1), Num(2), NaN>>
    /\ ColumnValues(prev, "B") = <<NaN, NaN, NaN>>
    /\ ColumnValues(df, "A") = <<Num(1), Num(2), Frac(3, 2)>>
    /\ ColumnValues(df, "B") = <<NaN, NaN, NaN>>

====
